---- MODULE Spec2Model ----
(***************************************************************************)
(* The bookmark HTTP API of progress-tracker-api.                          *)
(*                                                                         *)
(* The repository holds three revisions of the server:                     *)
(*   "cached"   src/src/index.js 1-205    list served from store.bookmarks *)
(*   "prepared" src/src/index.js 207-371  prepared statements, q trimmed   *)
(*   "timed"    src/unnamed/part_000      ORDER BY id DESC, {created}      *)
(* The model runs one of them (variant) over one bookmark table.           *)
(*                                                                         *)
(* Text is a tuple of one-character strings, so that LIKE and trim() are   *)
(* computed character by character.                                        *)
(***************************************************************************)
EXTENDS Integers, Sequences, FiniteSets, TLC

\* ------------------------------------------------------------- bounds
\* Largest id AUTOINCREMENT hands out before inserts are refused.
MaxId == 2
\* Largest value of the clock.
MaxClock == 2
\* Largest number of setImmediate callbacks queued at once.
MaxPending == 2

VARIABLES
    variant,              \* which revision of the server runs
    rows,                 \* table bookmark, in rowid order
    nextId,               \* the next AUTOINCREMENT id
    now,                  \* the clock that default timestamps read
    items,                \* store.bookmarks.items, the cache
    isUpdatingBookmarks,  \* the module-level flag of updateBookmarks
    immediates,           \* queued setImmediate(getBookmarks, store) callbacks
    conts,                \* handlers suspended at their await
    last,                 \* the latest request answered, with its response
    synced,               \* history: a refresh succeeded after the last write
    refreshLog,           \* history: outcome of the latest refresh since the last write
    client                \* a scripted client (see the scenarios)

vars == <<variant, rows, nextId, now, items, isUpdatingBookmarks, immediates,
          conts, last, synced, refreshLog, client>>

Variants == {"cached", "prepared", "timed"}

\* ---------------------------------------------------------------- text
Whitespace == {" "}

Lower(c) == CASE c = "A" -> "a" [] c = "B" -> "b" [] OTHER -> c

\* SQLite's LIKE: % matches any run of characters, _ any one character, and
\* ASCII letters match case-insensitively.
RECURSIVE LikeMatch(_, _)
LikeMatch(p, s) ==
    IF p = <<>> THEN s = <<>>
    ELSE IF Head(p) = "%"
         THEN LikeMatch(Tail(p), s) \/ (s # <<>> /\ LikeMatch(p, Tail(s)))
         ELSE /\ s # <<>>
              /\ (Head(p) = "_" \/ Lower(Head(p)) = Lower(Head(s)))
              /\ LikeMatch(Tail(p), Tail(s))

\* A pattern anchored at the start of the name.
LikePrefixPattern(search) == search \o <<"%">>

\* `%${search}%`
LikePattern(search) == <<"%">> \o search \o <<"%">>

RECURSIVE TrimStart(_)
TrimStart(s) ==
    IF s # <<>> /\ Head(s) \in Whitespace THEN TrimStart(Tail(s)) ELSE s

RECURSIVE TrimEnd(_)
TrimEnd(s) ==
    IF s # <<>> /\ s[Len(s)] \in Whitespace
    THEN TrimEnd(SubSeq(s, 1, Len(s) - 1)) ELSE s

\* String.prototype.trim
Trim(s) == TrimEnd(TrimStart(s))

\* ------------------------------------------------------------- storage
\* Tables tag and bookmark_tag; no route of the server writes them.
TagTable == {[id |-> 1, name |-> "t", variant |-> "default"]}
BookmarkTagTable == {[bookmarkId |-> 1, tagId |-> 1]}

\* getBookmarkTags.all({ $id })
getBookmarkTags(id) ==
    {t \in TagTable :
        \E bt \in BookmarkTagTable : bt.tagId = t.id /\ bt.bookmarkId = id}

\* The defaults the schema gives created_at and updated_at on insert, and
\* updated_at on update.
DefaultCreatedAt(clk) == clk
DefaultUpdatedAt(clk) == clk
OnUpdateUpdatedAt(clk) == clk

Reverse(s) == [i \in 1..Len(s) |-> s[Len(s) + 1 - i]]

\* INSERT INTO bookmark (name, href) VALUES (...)
InsertBookmark(rws, nid, clk, body) ==
    Append(rws, [id |-> nid, name |-> body.name, href |-> body.href,
                 finished |-> FALSE,
                 createdAt |-> DefaultCreatedAt(clk),
                 updatedAt |-> DefaultUpdatedAt(clk)])

\* trx.select().from(bookmark).where(eq(bookmark.name, name)).get():
\* the rows of that name; .get() is the first of them, or undefined.
SelectByName(rws, name) ==
    LET P(r) == r.name = name IN SelectSeq(rws, P)

\* update(bookmark).set(body).where(eq(bookmark.name, body.name))
UpdateByName(rws, clk, body) ==
    [i \in 1..Len(rws) |->
        IF rws[i].name = body.name
        THEN [rws[i] EXCEPT !.name = body.name, !.href = body.href,
                            !.updatedAt = OnUpdateUpdatedAt(clk)]
        ELSE rws[i]]

\* update(bookmark).set(body).where(eq(bookmark.id, params.id))
UpdateById(rws, clk, id, body) ==
    [i \in 1..Len(rws) |->
        IF rws[i].id = id
        THEN [rws[i] EXCEPT !.name = body.name, !.href = body.href,
                            !.updatedAt = OnUpdateUpdatedAt(clk)]
        ELSE rws[i]]

\* The toggle without its where clause.
SetFinishedEverywhere(rws, clk, id, finished) ==
    [i \in 1..Len(rws) |->
        [rws[i] EXCEPT !.finished = finished,
                       !.updatedAt = OnUpdateUpdatedAt(clk)]]

\* update(bookmark).set({ finished }).where(eq(bookmark.id, params.id))
SetFinishedById(rws, clk, id, finished) ==
    [i \in 1..Len(rws) |->
        IF rws[i].id = id
        THEN [rws[i] EXCEPT !.finished = finished,
                            !.updatedAt = OnUpdateUpdatedAt(clk)]
        ELSE rws[i]]

\* The delete without its where clause.
DeleteEverywhere(rws, id) == <<>>

\* delete(bookmark).where(eq(bookmark.id, params.id))
DeleteById(rws, id) ==
    LET P(r) == r.id # id IN SelectSeq(rws, P)

\* select().from(bookmark).where(like(bookmark.name, pattern)).all()
SelectLikeName(rws, pattern) ==
    LET P(r) == LikeMatch(pattern, r.name) IN SelectSeq(rws, P)

\* An upsert whose look-up never finds the name.
UpsertTxAlwaysInserts(rws, nid, clk, body) ==
    [rows |-> InsertBookmark(rws, nid, clk, body), nextId |-> nid + 1,
     created |-> TRUE]

\* The transaction callback of PUT /bookmarks: look the name up, insert when
\* it is absent, update the rows of that name otherwise.
UpsertTx(rws, nid, clk, body) ==
    IF SelectByName(rws, body.name) = <<>>
    THEN [rows |-> InsertBookmark(rws, nid, clk, body), nextId |-> nid + 1,
          created |-> TRUE]
    ELSE [rows |-> UpdateByName(rws, clk, body), nextId |-> nid,
          created |-> FALSE]

\* bookmarks.map(bookmark => { bookmark.tags = getBookmarkTags.all(...) })
WithTags(rws) ==
    [i \in 1..Len(rws) |->
        [id |-> rws[i].id, name |-> rws[i].name, href |-> rws[i].href,
         finished |-> rws[i].finished, createdAt |-> rws[i].createdAt,
         updatedAt |-> rws[i].updatedAt, tags |-> getBookmarkTags(rws[i].id)]]

\* A refresh that never assigns the store.
getBookmarksKeepsStore(rws, its, ok) == its

\* A refresh whose catch path stores the [] it returns.
getBookmarksEmptiesOnError(rws, its, ok) == IF ok THEN WithTags(rws) ELSE <<>>

\* getBookmarks(stateBookmarks): the new items; on an error the catch block
\* logs it and the store is left as it was.
getBookmarks(rws, its, ok) == IF ok THEN WithTags(rws) ELSE its

\* An updateBookmarks without its finally block: the flag stays set.
updateBookmarksFlagStuck(flag, imm) ==
    IF flag THEN [flag |-> flag, immediates |-> imm]
    ELSE [flag |-> TRUE, immediates |-> imm + 1]

\* updateBookmarks(stateBookmarks): the flag is tested, set, the refresh is
\* queued with setImmediate and the finally block clears the flag again.
updateBookmarks(flag, imm) ==
    IF flag THEN [flag |-> flag, immediates |-> imm]
    ELSE LET set == TRUE
             queued == imm + 1
         IN  [flag |-> FALSE, immediates |-> queued]

\* ------------------------------------------------- requests, responses
\* env.BEARER_TOKEN, and the bearer of a request that carries none.
BEARER_TOKEN == "secret"
NoBearer == "undefined"

GET == "GET /bookmarks"
POST == "POST /bookmarks"
PUT == "PUT /bookmarks"
PUT_ID == "PUT /bookmarks/:id"
PUT_CHECK == "PUT /bookmarks/:id/check/:finished"
DELETE == "DELETE /bookmarks/:id"

\* A validated request; the fields a route does not read hold a default.
Request(route, bearer, id, finished, name, href, hasQ, q) ==
    [route |-> route, bearer |-> bearer, id |-> id, finished |-> finished,
     name |-> name, href |-> href, hasQ |-> hasQ, q |-> q]

NoRequest == Request("none", NoBearer, 0, FALSE, <<>>, "", FALSE, <<>>)

Response(status, header, kind, text, list, created) ==
    [status |-> status, header |-> header, kind |-> kind, text |-> text,
     list |-> list, created |-> created]

NoResponse == Response(0, "", "none", "", <<>>, FALSE)
\* The handler returned undefined.
Empty == Response(200, "", "empty", "", <<>>, FALSE)
ListOf(l) == Response(200, "", "list", "", l, FALSE)
CreatedIs(c) == Response(200, "", "json", "", <<>>, c)
Unauthorized ==
    Response(400, "Bearer realm='sign', error=\"invalid_request\"", "text",
             "Unauthorized", <<>>, FALSE)

\* The routes each revision declares.
Routes(v) ==
    CASE v = "cached" -> {GET, POST, PUT_ID, PUT_CHECK, DELETE}
      [] OTHER -> {GET, POST, PUT, PUT_ID, PUT_CHECK, DELETE}

\* A guard that only asks for some credential.
beforeHandleAnyBearer(v, bearer) == bearer = NoBearer

\* beforeHandle of the guard: TRUE when the request is refused.
beforeHandle(v, bearer) ==
    IF v = "timed"
    THEN bearer = NoBearer \/ bearer # BEARER_TOKEN
    ELSE (bearer = NoBearer \/ bearer = "") \/ bearer # BEARER_TOKEN

\* The handler of GET /bookmarks.
ListHandler(v, rws, its, hasQ, q) ==
    CASE v = "timed" -> Reverse(rws)
      [] v = "cached" ->
            IF ~hasQ \/ q = <<>> THEN its
            ELSE SelectLikeName(rws, LikePattern(q))
      [] OTHER ->
            IF ~hasQ \/ q = <<>> THEN rws
            ELSE IF Len(Trim(q)) = 0 THEN <<>>
                 ELSE SelectLikeName(rws, LikePattern(Trim(q)))

\* What the handler of PUT /bookmarks returns.
UpsertResponse(v, created) == IF v = "timed" THEN CreatedIs(created) ELSE Empty

\* ------------------------------------------------------------ handlers
Idle == [busy |-> FALSE, req |-> NoRequest, created |-> FALSE]
Awaiting(req, created) == [busy |-> TRUE, req |-> req, created |-> created]

\* The guard answers and the route's handler does not run.
Refuse(req) ==
    /\ last' = [req |-> req, resp |-> Unauthorized]
    /\ UNCHANGED <<variant, rows, nextId, now, items, isUpdatingBookmarks,
                   immediates, conts, synced, refreshLog>>

\* A handler ran its statement and is suspended at its await.
Suspend(req, created) ==
    \E s \in DOMAIN conts :
        /\ ~conts[s].busy
        /\ \A t \in DOMAIN conts : t < s => conts[t].busy
        /\ conts' = [conts EXCEPT ![s] = Awaiting(req, created)]

\* A write reached the table: the cache is behind until a refresh succeeds.
Wrote ==
    /\ synced' = (variant # "cached")
    /\ refreshLog' = IF variant = "cached" THEN "none" ELSE refreshLog

\* GET /bookmarks
GetBookmarks(req) ==
    /\ req.route = GET
    /\ IF beforeHandle(variant, req.bearer) THEN Refuse(req)
       ELSE /\ last' = [req |-> req,
                        resp |-> ListOf(ListHandler(variant, rows, items,
                                                    req.hasQ, req.q))]
            /\ UNCHANGED <<variant, rows, nextId, now, items,
                           isUpdatingBookmarks, immediates, conts, synced,
                           refreshLog>>

\* POST /bookmarks, to its await
PostBookmark(req) ==
    /\ req.route = POST
    /\ IF beforeHandle(variant, req.bearer) THEN Refuse(req)
       ELSE /\ nextId <= MaxId
            /\ rows' = InsertBookmark(rows, nextId, now, req)
            /\ nextId' = nextId + 1
            /\ Suspend(req, FALSE)
            /\ Wrote
            /\ UNCHANGED <<variant, now, items, isUpdatingBookmarks,
                           immediates, last>>

\* PUT /bookmarks, to its await: the transaction has run
PutBookmark(req) ==
    /\ req.route = PUT
    /\ PUT \in Routes(variant)
    /\ IF beforeHandle(variant, req.bearer) THEN Refuse(req)
       ELSE LET tx == UpsertTx(rows, nextId, now, req) IN
            /\ tx.nextId <= MaxId + 1
            /\ rows' = tx.rows
            /\ nextId' = tx.nextId
            /\ Suspend(req, tx.created)
            /\ Wrote
            /\ UNCHANGED <<variant, now, items, isUpdatingBookmarks,
                           immediates, last>>

\* PUT /bookmarks/:id, to its await
PutBookmarkById(req) ==
    /\ req.route = PUT_ID
    /\ IF beforeHandle(variant, req.bearer) THEN Refuse(req)
       ELSE /\ rows' = UpdateById(rows, now, req.id, req)
            /\ Suspend(req, FALSE)
            /\ Wrote
            /\ UNCHANGED <<variant, nextId, now, items, isUpdatingBookmarks,
                           immediates, last>>

\* PUT /bookmarks/:id/check/:finished, to its await
PutCheck(req) ==
    /\ req.route = PUT_CHECK
    /\ IF beforeHandle(variant, req.bearer) THEN Refuse(req)
       ELSE /\ rows' = SetFinishedById(rows, now, req.id, req.finished)
            /\ Suspend(req, FALSE)
            /\ Wrote
            /\ UNCHANGED <<variant, nextId, now, items, isUpdatingBookmarks,
                           immediates, last>>

\* DELETE /bookmarks/:id, to its await
DeleteBookmark(req) ==
    /\ req.route = DELETE
    /\ IF beforeHandle(variant, req.bearer) THEN Refuse(req)
       ELSE /\ rows' = DeleteById(rows, req.id)
            /\ Suspend(req, FALSE)
            /\ Wrote
            /\ UNCHANGED <<variant, nextId, now, items, isUpdatingBookmarks,
                           immediates, last>>

\* A suspended handler resumes after its await: the cached revision calls
\* updateBookmarks(store.bookmarks), and the handler returns.
AfterAwait(s) ==
    /\ conts[s].busy
    /\ LET u == updateBookmarks(isUpdatingBookmarks, immediates) IN
       IF variant = "cached"
       THEN /\ u.immediates <= MaxPending
            /\ isUpdatingBookmarks' = u.flag
            /\ immediates' = u.immediates
       ELSE UNCHANGED <<isUpdatingBookmarks, immediates>>
    /\ last' = [req |-> conts[s].req,
                resp |-> IF conts[s].req.route = PUT
                         THEN UpsertResponse(variant, conts[s].created)
                         ELSE Empty]
    /\ conts' = [conts EXCEPT ![s] = Idle]
    /\ client' = IF client.script = "none" THEN client
                 ELSE [client EXCEPT !.results = Append(@, last'),
                                     !.owed = immediates']
    /\ UNCHANGED <<variant, rows, nextId, now, items, synced, refreshLog>>

\* The event loop runs a queued setImmediate(getBookmarks, store.bookmarks).
RunImmediate ==
    /\ immediates > 0
    /\ immediates' = immediates - 1
    /\ \E ok \in BOOLEAN :
        /\ items' = getBookmarks(rows, items, ok)
        /\ synced' = (ok \/ synced)
        /\ refreshLog' = IF ok THEN "ok" ELSE "error"
    /\ client' = IF client.script = "none" \/ client.owed = 0 THEN client
                 ELSE [client EXCEPT !.owed = @ - 1]
    /\ UNCHANGED <<variant, rows, nextId, now, isUpdatingBookmarks, conts,
                   last>>

\* The clock advances.
Tick ==
    /\ now < MaxClock
    /\ now' = now + 1
    /\ UNCHANGED <<variant, rows, nextId, items, isUpdatingBookmarks,
                   immediates, conts, last, synced, refreshLog, client>>

\* ------------------------------------------------------------- clients
\* A scripted client: the requests it sends (reqs), how many the server has
\* taken (step), the responses it got (results), the table when it started
\* (pre), the queued refreshes that run before its next request arrives
\* (owed), and whether it sent its second request after the first response.
NoClient ==
    [script |-> "none", step |-> 0, reqs |-> <<>>, results |-> <<>>,
     pre |-> <<>>, owed |-> 0, sequential |-> FALSE]

\* No scripted client is active: any request may arrive.
Free == client.script = "none" /\ UNCHANGED client

Quiet == \A s \in DOMAIN conts : ~conts[s].busy

\* Two upserts of one name: the first is taken now, the second at any later
\* point.
BeginUpserts(r1, r2) ==
    /\ client.script = "none"
    /\ Quiet
    /\ r1.name = r2.name
    /\ ~beforeHandle(variant, r1.bearer)
    /\ ~beforeHandle(variant, r2.bearer)
    /\ PutBookmark(r1)
    /\ client' = [NoClient EXCEPT !.script = "upserts", !.step = 1,
                                  !.reqs = <<r1, r2>>, !.pre = rows]

SecondUpsert ==
    /\ client.script = "upserts"
    /\ client.step = 1
    /\ PutBookmark(client.reqs[2])
    /\ client' = [client EXCEPT !.step = 2,
                                !.sequential = (Len(client.results) = 1)]

\* A create, and after its response a list request with no q. The list
\* request is issued after the response, so it arrives after the setImmediate
\* callbacks queued by then have run.
BeginCreate(r) ==
    /\ client.script = "none"
    /\ Quiet
    /\ ~beforeHandle(variant, r.bearer)
    /\ PostBookmark(r)
    /\ client' = [NoClient EXCEPT !.script = "create", !.step = 1,
                                  !.reqs = <<r>>, !.pre = rows]

ListAfterCreate(g) ==
    /\ client.script = "create"
    /\ client.step = 1
    /\ Len(client.results) = 1
    /\ client.owed = 0
    /\ ~g.hasQ
    /\ ~beforeHandle(variant, g.bearer)
    /\ GetBookmarks(g)
    /\ client' = [client EXCEPT !.step = 2, !.results = Append(@, last')]

\* ------------------------------------------------------ specifications
Names == {<<"a">>, <<"A", " ">>}
Hrefs == {"h1", "h2"}
Ids == 1..(MaxId + 1)
Queries == {<<>>, <<" ">>, <<"a">>, <<" ", "a">>, <<"_">>, <<"%">>, <<"b">>}
BadBearers == {NoBearer, "", "wrong"}

Get(hasQ, q) == Request(GET, BEARER_TOKEN, 0, FALSE, <<>>, "", hasQ, q)
Post(n, h) == Request(POST, BEARER_TOKEN, 0, FALSE, n, h, FALSE, <<>>)
Put(n, h) == Request(PUT, BEARER_TOKEN, 0, FALSE, n, h, FALSE, <<>>)
PutId(i, n, h) == Request(PUT_ID, BEARER_TOKEN, i, FALSE, n, h, FALSE, <<>>)
Check(i, f) == Request(PUT_CHECK, BEARER_TOKEN, i, f, <<>>, "", FALSE, <<>>)
Delete(i) == Request(DELETE, BEARER_TOKEN, i, FALSE, <<>>, "", FALSE, <<>>)

\* One request of each route for each way of carrying no valid credential.
Unauthenticated ==
    {Request(rt, b, 1, TRUE, <<"a">>, "h1", FALSE, <<>>) :
        rt \in {GET, POST, PUT, PUT_ID, PUT_CHECK, DELETE}, b \in BadBearers}

\* The table a server may start on: empty, or one bookmark (tagged) made
\* before the server started, at time 0; the server starts at time 1.
InitialRows ==
    {<<>>,
     <<[id |-> 1, name |-> <<"a">>, href |-> "h1", finished |-> FALSE,
        createdAt |-> 0, updatedAt |-> 0]>>}

\* The state after construction, for a server of one of the revisions vs that
\* suspends at most k handlers at a time:
\* .state('bookmarks', { items: getBookmarks() }) holds the table with its
\* tags, or [] when that first query failed.
InitOf(vs, k) ==
    /\ variant \in vs
    /\ rows \in InitialRows
    /\ nextId = Len(rows) + 1
    /\ now = 1
    /\ \E ok \in BOOLEAN :
        /\ items = IF variant = "cached" THEN getBookmarks(rows, <<>>, ok)
                   ELSE <<>>
        /\ synced = (variant # "cached" \/ ok)
        /\ refreshLog = IF variant # "cached" \/ ok THEN "ok" ELSE "error"
    /\ isUpdatingBookmarks = FALSE
    /\ immediates = 0
    /\ conts = [s \in 1..k |-> Idle]
    /\ last = [req |-> NoRequest, resp |-> NoResponse]
    /\ client = NoClient

\* -- Spec: every revision, every route, with and without credentials.
Requests ==
    Unauthenticated
    \cup {Get(FALSE, <<>>), Post(<<"a">>, "h1"), Put(<<"a">>, "h2"),
          PutId(1, <<"a">>, "h2"), Check(1, TRUE), Delete(1)}

Init == InitOf(Variants, 1)
Next ==
    \/ \E req \in Requests : GetBookmarks(req) /\ Free
    \/ \E req \in Requests : PostBookmark(req) /\ Free
    \/ \E req \in Requests : PutBookmark(req) /\ Free
    \/ \E req \in Requests : PutBookmarkById(req) /\ Free
    \/ \E req \in Requests : PutCheck(req) /\ Free
    \/ \E req \in Requests : DeleteBookmark(req) /\ Free
    \/ \E s \in DOMAIN conts : AfterAwait(s)
    \/ RunImmediate
Spec == Init /\ [][Next]_vars

\* -- SpecToggle: creates and toggles as the clock advances.
ToggleRequests ==
    {Post(<<"a">>, "h1")} \cup {Check(1, f) : f \in BOOLEAN}

InitToggle == InitOf(Variants, 1)
NextToggle ==
    \/ \E req \in ToggleRequests : PostBookmark(req) /\ Free
    \/ \E req \in ToggleRequests : PutCheck(req) /\ Free
    \/ \E s \in DOMAIN conts : AfterAwait(s)
    \/ RunImmediate
    \/ Tick
SpecToggle == InitToggle /\ [][NextToggle]_vars

\* -- SpecSearch: list requests with every q, over tables whose names differ
\* in case and hold a blank.
SearchRequests ==
    {Get(FALSE, <<>>)} \cup {Get(TRUE, q) : q \in Queries}
    \cup {Post(n, "h1") : n \in Names} \cup {Delete(1)}

InitSearch == InitOf(Variants, 1)
NextSearch ==
    \/ \E req \in SearchRequests : GetBookmarks(req) /\ Free
    \/ \E req \in SearchRequests : PostBookmark(req) /\ Free
    \/ \E req \in SearchRequests : DeleteBookmark(req) /\ Free
    \/ \E s \in DOMAIN conts : AfterAwait(s)
    \/ RunImmediate
SpecSearch == InitSearch /\ [][NextSearch]_vars

\* -- SpecCached: the cache-backed revision under overlapping writes. The
\* event loop runs every resumed handler and every queued callback.
CachedRequests ==
    {Get(FALSE, <<>>), Post(<<"a">>, "h1"), PutId(1, <<"a">>, "h2"),
     Check(1, TRUE), Delete(1)}

InitCached == InitOf({"cached"}, 2)
NextCached ==
    \/ \E req \in CachedRequests : GetBookmarks(req) /\ Free
    \/ \E req \in CachedRequests : PostBookmark(req) /\ Free
    \/ \E req \in CachedRequests : PutBookmarkById(req) /\ Free
    \/ \E req \in CachedRequests : PutCheck(req) /\ Free
    \/ \E req \in CachedRequests : DeleteBookmark(req) /\ Free
    \/ \E s \in DOMAIN conts : AfterAwait(s)
    \/ RunImmediate
SpecCached ==
    /\ InitCached /\ [][NextCached]_vars
    /\ WF_vars(RunImmediate)
    /\ \A s \in {1, 2} : WF_vars(AfterAwait(s))

\* -- SpecUpsert: creates, then a client that sends two upserts of one name,
\* the second before or after the first is answered.
UpsertSetup == {Post(n, h) : n \in Names, h \in Hrefs}
Upserts == {Put(n, h) : n \in Names, h \in Hrefs}

InitUpsert == InitOf({"prepared", "timed"}, 2)
NextUpsert ==
    \/ \E req \in UpsertSetup : PostBookmark(req) /\ Free
    \/ \E r1, r2 \in Upserts : BeginUpserts(r1, r2)
    \/ SecondUpsert
    \/ \E s \in DOMAIN conts : AfterAwait(s)
SpecUpsert == InitUpsert /\ [][NextUpsert]_vars

\* -- SpecCreate: creates, then a client that sends a create and, after its
\* response, a list request.
CreateSetup == {Post(<<"a">>, "h1"), Delete(1)}
Creates == {Post(<<"a">>, h) : h \in Hrefs}

InitCreate == InitOf(Variants, 1)
NextCreate ==
    \/ \E req \in CreateSetup : PostBookmark(req) /\ Free
    \/ \E req \in CreateSetup : DeleteBookmark(req) /\ Free
    \/ \E r \in Creates : BeginCreate(r)
    \/ ListAfterCreate(Get(FALSE, <<>>))
    \/ \E s \in DOMAIN conts : AfterAwait(s)
    \/ RunImmediate
    \/ Tick
SpecCreate == InitCreate /\ [][NextCreate]_vars

\* ---------------------------------------------------------- properties
\* The credential of a request is absent or is not the configured token.
BadCredential(b) == b = NoBearer \/ b # BEARER_TOKEN

\* Slot s takes a request in this step: its handler ran to its await.
Taken(s) == ~conts[s].busy /\ conts'[s].busy
\* Slot s answers in this step.
Answered(s) == conts[s].busy /\ ~conts'[s].busy

HasId(rws, id) == \E i \in 1..Len(rws) : rws[i].id = id

\* C1: a request to a /bookmarks route whose credential is absent or wrong is
\* answered 400 with a WWW-Authenticate header and the body Unauthorized; no
\* handler is ever suspended on its behalf, and the step that answers it
\* leaves the table, the cache and the refresh queue as they were.
C1_RefusedWithoutHandler ==
    [][/\ \A s \in DOMAIN conts :
            conts'[s].busy => ~BadCredential(conts'[s].req.bearer)
       /\ (last' # last /\ BadCredential(last'.req.bearer)) =>
            /\ last'.resp.status = 400
            /\ last'.resp.header # ""
            /\ last'.resp.kind = "text"
            /\ last'.resp.text = "Unauthorized"
            /\ rows' = rows /\ nextId' = nextId /\ items' = items
            /\ immediates' = immediates /\ conts' = conts]_vars

C1_Witness ==
    /\ last.req.route = DELETE
    /\ last.req.bearer = "wrong"
    /\ last.resp.status = 400
    /\ variant = "cached"
    /\ HasId(rows, 1)
    /\ items # <<>>

\* C7: a delete, an update by id or a toggle whose id matches no row leaves the
\* table exactly as it was, and its response is the plain success response.
ByIdRoutes == {DELETE, PUT_ID, PUT_CHECK}

C7_MissingIdIsNoOp ==
    [][\A s \in DOMAIN conts :
        /\ (Taken(s) /\ conts'[s].req.route \in ByIdRoutes
                     /\ ~HasId(rows, conts'[s].req.id)) => rows' = rows
        /\ (Answered(s) /\ conts[s].req.route \in ByIdRoutes) =>
                /\ last'.req = conts[s].req
                /\ last'.resp.status = 200
                /\ last'.resp.kind = "empty"]_vars

C7_Witness ==
    /\ last.req.route = DELETE
    /\ last.resp.status = 200
    /\ rows # <<>>
    /\ ~HasId(rows, last.req.id)
    /\ \E s \in DOMAIN conts :
        /\ conts[s].busy
        /\ conts[s].req.route = PUT_ID
        /\ ~HasId(rows, conts[s].req.id)

\* C6 (as amended): a toggle on an existing id sets that row's finished to the
\* given boolean and its updatedAt to the current clock value, which is never
\* earlier than the old one; the row's id, name, href and createdAt, and every
\* other row, stay as they were.
ToggleFrame(strictly) ==
    \A s \in DOMAIN conts :
        (Taken(s) /\ conts'[s].req.route = PUT_CHECK
                  /\ HasId(rows, conts'[s].req.id)) =>
            /\ Len(rows') = Len(rows)
            /\ \A i \in 1..Len(rows) :
                IF rows[i].id = conts'[s].req.id
                THEN /\ rows'[i].finished = conts'[s].req.finished
                     /\ IF strictly THEN rows'[i].updatedAt > rows[i].updatedAt
                                 ELSE rows'[i].updatedAt >= rows[i].updatedAt
                     /\ rows'[i].id = rows[i].id
                     /\ rows'[i].name = rows[i].name
                     /\ rows'[i].href = rows[i].href
                     /\ rows'[i].createdAt = rows[i].createdAt
                ELSE rows'[i] = rows[i]

Contains(name, t) ==
    \E i \in 0..(Len(name) - Len(t)) :
        \A k \in 1..Len(t) : name[i + k] = t[k]

\* t occurs in name when ASCII case is ignored and _ stands for any character.
ContainsFolded(name, t) ==
    \E i \in 0..(Len(name) - Len(t)) :
        \A k \in 1..Len(t) : t[k] = "_" \/ Lower(name[i + k]) = Lower(t[k])

Blank(q) == \A k \in 1..Len(q) : q[k] \in Whitespace

Range(f) == {f[i] : i \in DOMAIN f}

\* What a list request without q is answered.
Unfiltered == ListHandler(variant, rows, items, FALSE, <<>>)

\* A list request is answered in this step.
Listed == last' # last /\ last'.req.route = GET /\ last'.resp.status = 200

\* C8 as stated: a non-empty q is answered exactly the rows whose name contains
\* q; an empty or blank q is answered the unfiltered list.
C8_SearchAsStated ==
    [][(Listed /\ last'.req.hasQ) =>
        IF Blank(last'.req.q)
        THEN last'.resp.list = Unfiltered
        ELSE Range(last'.resp.list)
                = {r \in Range(rows) : Contains(r.name, last'.req.q)}]_vars

\* C8 (as amended): the revision without a query schema answers the whole
\* table, newest first, whatever q is. The other two answer the unfiltered
\* list for q = ""; otherwise they search the table itself for q (the
\* prepared-statement revision for q trimmed, and it answers the empty list
\* when nothing is left): every row whose name contains the searched text is
\* answered, and when the text holds no % the answer is exactly the rows whose
\* name contains it with ASCII case ignored and _ standing for any character.
Searched(v, q) == IF v = "prepared" THEN Trim(q) ELSE q

C8_Search ==
    [][(Listed /\ last'.req.hasQ) =>
        LET q == last'.req.q
            t == Searched(variant, q)
            list == last'.resp.list
        IN  IF variant = "timed" THEN list = Reverse(rows)
            ELSE IF q = <<>> THEN list = Unfiltered
            ELSE IF t = <<>> THEN list = <<>>
            ELSE /\ \A i \in 1..Len(rows) :
                        Contains(rows[i].name, t) => rows[i] \in Range(list)
                 /\ Range(list) \subseteq Range(rows)
                 /\ "%" \notin Range(t) =>
                        list = SelectSeq(rows, LAMBDA r : ContainsFolded(r.name, t))]_vars

C8_Witness ==
    /\ variant = "prepared"
    /\ last.req.route = GET
    /\ last.req.hasQ
    /\ last.req.q = <<" ", "a">>
    /\ Len(last.resp.list) = 2
    /\ last.resp.list = rows
    /\ \E i \in 1..Len(rows) : ~Contains(rows[i].name, <<"a">>)

C9_SingleRefresh == immediates <= 1

\* C10: a refresh that fails leaves the cache exactly as it was, one that
\* succeeds replaces it by the whole table with its tags; neither touches a
\* response, and a refresh is only ever queued by the step that answers the
\* request with its success response.
C10_RefreshFailure ==
    [][/\ immediates' = immediates - 1 =>
            /\ IF refreshLog' = "error" THEN items' = items
               ELSE items' = WithTags(rows)
            /\ rows' = rows /\ last' = last /\ conts' = conts
       /\ immediates' = immediates + 1 =>
            /\ \E s \in DOMAIN conts : Answered(s)
            /\ last'.resp.status = 200]_vars

C10_Witness ==
    /\ refreshLog = "error"
    /\ ~synced
    /\ Len(items) = 2
    /\ Len(rows) = 1
    /\ last.req.route = DELETE
    /\ last.resp.status = 200
    /\ immediates = 0

\* The rows of a table, or entries of a list, with the given name.
Named(rws, name) == {i \in 1..Len(rws) : rws[i].name = name}
Same(rws, name, href) ==
    {i \in 1..Len(rws) : rws[i].name = name /\ rws[i].href = href}

UpsertsAnswered == client.script = "upserts" /\ Len(client.results) = 2
InSequence ==
    /\ UpsertsAnswered
    /\ client.sequential
    /\ client.reqs[1].href # client.reqs[2].href

\* C2 as stated: after two upserts in sequence exactly one row has the name,
\* with the second href; the first call reports created = true when the name
\* was new, and the second reports created = false.
C2_UpsertTwiceAsStated ==
    InSequence =>
        LET name == client.reqs[1].name IN
        /\ Cardinality(Named(rows, name)) = 1
        /\ \A i \in Named(rows, name) : rows[i].href = client.reqs[2].href
        /\ Named(client.pre, name) = {} =>
                /\ client.results[1].resp.kind = "json"
                /\ client.results[1].resp.created
        /\ client.results[2].resp.kind = "json"
        /\ ~client.results[2].resp.created

\* C2 (as amended): after two upserts in sequence every row of that name has
\* the second href; there is exactly one such row when at most one existed
\* before, and as many as before otherwise. The revision that answers
\* {created} reports true for the first call exactly when the name was new and
\* false for the second; the other revision answers both with no body.
C2_UpsertTwice ==
    InSequence =>
        LET name == client.reqs[1].name
            before == Cardinality(Named(client.pre, name))
        IN
        /\ \A i \in Named(rows, name) : rows[i].href = client.reqs[2].href
        /\ Cardinality(Named(rows, name)) = IF before = 0 THEN 1 ELSE before
        /\ \A k \in 1..2 : client.results[k].resp.status = 200
        /\ IF variant = "timed"
           THEN /\ client.results[1].resp.kind = "json"
                /\ client.results[1].resp.created = (before = 0)
                /\ client.results[2].resp.kind = "json"
                /\ ~client.results[2].resp.created
           ELSE \A k \in 1..2 : client.results[k].resp.kind = "empty"

C2_Witness ==
    /\ InSequence
    /\ variant = "timed"
    /\ client.pre # <<>>
    /\ Named(client.pre, client.reqs[1].name) = {}
    /\ client.results[1].resp.created
    /\ ~client.results[2].resp.created
    /\ Cardinality(Named(rows, client.reqs[1].name)) = 1

\* C3: two upserts of one name, the second taken before or after the first is
\* answered, on a table without that name: one row is inserted, one row has
\* the name, and at most one of the two reports created = true.
C3_OneInsert ==
    (client.script = "upserts" /\ client.step = 2
        /\ Named(client.pre, client.reqs[1].name) = {}) =>
        /\ Len(rows) = Len(client.pre) + 1
        /\ Cardinality(Named(rows, client.reqs[1].name)) = 1
        /\ Cardinality({k \in 1..Len(client.results) :
                            client.results[k].resp.created}
                       \cup {-s : s \in {t \in DOMAIN conts :
                                conts[t].busy /\ conts[t].created}}) <= 1

C3_Witness ==
    /\ UpsertsAnswered
    /\ ~client.sequential
    /\ variant = "timed"
    /\ client.pre # <<>>
    /\ Named(client.pre, client.reqs[1].name) = {}
    /\ client.results[1].resp.created
    /\ ~client.results[2].resp.created
    /\ Cardinality(Named(rows, client.reqs[1].name)) = 1

ListedAfterCreate == client.script = "create" /\ client.step = 2
Entry(e) ==
    /\ e.name = client.reqs[1].name
    /\ e.href = client.reqs[1].href

\* C4 as stated: the list request that follows a create is answered exactly
\* one entry with that name and href, with finished = false and
\* createdAt = updatedAt.
C4_CreateThenListAsStated ==
    ListedAfterCreate =>
        LET list == client.results[2].resp.list IN
        /\ Cardinality({i \in 1..Len(list) : Entry(list[i])}) = 1
        /\ \A i \in 1..Len(list) :
                Entry(list[i]) =>
                    ~list[i].finished /\ list[i].createdAt = list[i].updatedAt

\* C4 (as amended): the list request that follows a create is answered one
\* entry more with that name and href than the table held before, the new one
\* with a new id, finished = false and createdAt = updatedAt; in the
\* cache-backed revision a refresh has run between the two, and the above
\* holds when a refresh succeeded after the create, while otherwise the answer
\* is the cache as it was.
C4_CreateThenList ==
    ListedAfterCreate =>
        LET list == client.results[2].resp.list
            pre == client.pre
            r == client.reqs[1]
        IN
        /\ variant = "cached" => refreshLog # "none"
        /\ IF synced
           THEN /\ Cardinality(Same(list, r.name, r.href))
                    = Cardinality(Same(pre, r.name, r.href)) + 1
                /\ Len(list) = Len(pre) + 1
                /\ \E i \in 1..Len(list) :
                    /\ Entry(list[i])
                    /\ ~HasId(pre, list[i].id)
                    /\ ~list[i].finished
                    /\ list[i].createdAt = list[i].updatedAt
           ELSE /\ list = items
                /\ \A i \in 1..Len(list) : list[i].id # rows[Len(rows)].id

C4_Witness ==
    /\ ListedAfterCreate
    /\ variant = "cached"
    /\ synced
    /\ client.pre = <<>>
    /\ Len(client.results[2].resp.list) = 1
    /\ client.results[2].resp.list[1].createdAt = MaxClock

====
